---- MODULE Spec2Model ----
(***************************************************************************)
(* The synchronized capture session of localizer (src/localizer/capture.py)*)
(*                                                                         *)
(* capture() is the coordinator.  It creates and starts four threads (GPS, *)
(* antenna, CaptureThread, channel hopper), waits for a GPS 3D fix, sets   *)
(* _initialize_flag, sleeps duration+1 seconds, takes one result from the  *)
(* antenna, GPS and capture queues, writes the metadata csv and joins the  *)
(* four threads.  CaptureThread.run waits for _initialize_flag, spawns     *)
(* dumpcap, reads its stderr until a line starting with "File:" and then   *)
(* sets _start_flag, on which the three other threads wait.                *)
(*                                                                         *)
(* Time is discrete, one Tick is one second; every running timer advances  *)
(* on a Tick.  time.sleep(.1) in CaptureThread.run is shorter than a Tick  *)
(* and therefore takes zero or one Tick.                                   *)
(***************************************************************************)
EXTENDS Integers, Sequences, FiniteSets, TLC

VARIABLES
    coord_pc,          \* position of capture() (the coordinator)
    coord_result,      \* what capture() returned: "none", "False", "session"
    coord_err,         \* exception that ended capture(): "none", ...
    params_duration,   \* localizer.params.duration
    arg_duration,      \* duration of the Params object the shell passes
    time_waited,       \* _time_waited of the GPS fix loop
    gps_mode,          \* last gpsd.get_current().mode the coordinator saw
    initialize_flag,   \* _initialize_flag (threading.Event)
    start_flag,        \* _start_flag (threading.Event)
    thread,            \* position of each worker thread
    cap_err,           \* exception that ended CaptureThread.run
    curr_line,         \* curr_line of CaptureThread.run
    cap_elapsed,       \* time.time() - _timeout_start, saturating
    proc,              \* the dumpcap subprocess: "none", "running", "exited"
    stderr,            \* lines written to proc.stderr and not yet read
    marker_emitted,    \* the subprocess has written its "File:" line
    queue,             \* the three response queues
    collected,         \* results the coordinator has taken, in order
    meta_written,      \* number of times the metadata csv was written
    joined,            \* threads the coordinator has joined
    sec,               \* iterations of the duration loop begun
    sleep_left,        \* seconds left of the coordinator's time.sleep(1)
    shell_pc,          \* position of LocalizerShell.do_capture
    meta,              \* process_capture: the meta argument (the schedule)
    results,           \* process_capture: rows written to the results csv
    beacon_count,      \* process_capture: _beacon_count
    beacon_failures,   \* process_capture: _beacon_failures
    frames_read,       \* process_capture: packets the for loop has taken
    samples,           \* interpolate: rows of the dataframe given as series
    bearing_arg,       \* interpolate: the bearing argument
    series,            \* interpolate: what prep_for_interpolation returned
    method,            \* interpolate: _method
    guess,             \* interpolate: _guess, <<>> for NaN and <<d>> for label d
    locate_err,        \* exception that ended interpolate: "none", ...
    dir_files,         \* the suffixes of the files in each session directory
    dir_meta,          \* the record in each directory's metadata file
    pd_pc,             \* position of process_directory
    pd_todo,           \* process_directory: directories the loop has yet to take
    pd_limit,          \* process_directory: limit
    pd_num_dirs,       \* process_directory: _num_dirs
    pd_handed,         \* process_directory: its calls of process_capture
    pd_err             \* exception that ended process_directory

sessionVars == <<coord_pc, coord_result, coord_err, params_duration,
                 time_waited, gps_mode, initialize_flag, start_flag, thread,
                 cap_err, curr_line, cap_elapsed, proc, stderr, marker_emitted,
                 queue, collected, meta_written, joined, sec, sleep_left,
                 shell_pc>>
processVars == <<meta, results, beacon_count, beacon_failures, frames_read>>
locateVars == <<samples, bearing_arg, series, method, guess, locate_err>>
directoryVars == <<dir_files, dir_meta, pd_pc, pd_todo, pd_limit, pd_num_dirs,
                   pd_handed, pd_err>>
callerVars == <<arg_duration>>
offlineVars == <<processVars, locateVars, directoryVars, callerVars>>

vars == <<sessionVars, offlineVars>>

(***************************************************************************)
(* Bounds of the model                                                     *)
(***************************************************************************)
MaxDuration == 2     \* localizer.params.duration ranges over 1..MaxDuration
MaxWait == 2         \* iterations of the GPS fix loop without a fix
MaxLines == 2        \* unread lines the stderr pipe holds

(***************************************************************************)
(* Program constants                                                       *)
(***************************************************************************)
StartTimeout == 5    \* seconds the capture thread waits for "File:"
FixMode == 3         \* gpsd mode of a 3D fix

Workers == {"hopper", "antenna", "gps", "capture"}
Gated == {"hopper", "antenna", "gps"}      \* threads that wait on _start_flag
Reporting == {"antenna", "gps", "capture"} \* threads with a response queue

Max(a, b) == IF a >= b THEN a ELSE b
Min(a, b) == IF a <= b THEN a ELSE b

\* A thread that has returned from run() or died of an exception.
Terminated(w) == thread[w] \in {"done", "dead"}

(***************************************************************************)
(* The statements of capture() in program order.                           *)
(***************************************************************************)
\* Mutant: the GPS result is taken before the antenna result.
CoordOrderGpsFirst ==
    << "mkdir", "setup_gps", "setup_antenna", "setup_capture", "setup_hopper",
       "gps_wait", "sleep", "get_gps", "get_antenna", "get_capture",
       "write_meta", "join_hopper", "join_antenna", "join_gps", "join_capture",
       "return" >>

\* Mutant: the metadata csv is written before the capture result is taken.
CoordOrderWriteEarly ==
    << "mkdir", "setup_gps", "setup_antenna", "setup_capture", "setup_hopper",
       "gps_wait", "sleep", "get_antenna", "get_gps", "write_meta",
       "get_capture", "join_hopper", "join_antenna", "join_gps", "join_capture",
       "return" >>

\* Mutant: capture() returns without joining its threads.
CoordOrderNoJoins ==
    << "mkdir", "setup_gps", "setup_antenna", "setup_capture", "setup_hopper",
       "gps_wait", "sleep", "get_antenna", "get_gps", "get_capture",
       "write_meta", "return" >>

CoordOrder ==
    << "mkdir", "setup_gps", "setup_antenna", "setup_capture", "setup_hopper",
       "gps_wait", "sleep", "get_antenna", "get_gps", "get_capture",
       "write_meta", "join_hopper", "join_antenna", "join_gps", "join_capture",
       "return" >>

After(pc) ==
    LET i == CHOOSE k \in 1..Len(CoordOrder) : CoordOrder[k] = pc
    IN  IF i < Len(CoordOrder) THEN CoordOrder[i + 1] ELSE "returned"

\* No offline processing is under way.
ProcessIdle ==
    /\ meta = [start |-> 0, end |-> 0, degrees |-> 0, bearing |-> 0]
    /\ results = <<>>
    /\ beacon_count = 0
    /\ beacon_failures = 0
    /\ frames_read = 0

DirectoryIdle ==
    /\ dir_files = <<>>
    /\ dir_meta = <<>>
    /\ pd_pc = "idle"
    /\ pd_todo = <<>>
    /\ pd_limit = 0
    /\ pd_num_dirs = 0
    /\ pd_handed = <<>>
    /\ pd_err = "none"

LocateIdle ==
    /\ samples = <<>>
    /\ bearing_arg = 0
    /\ series = <<>>
    /\ method = "none"
    /\ guess = <<>>
    /\ locate_err = "none"

\* The duration of the object the shell passes to capture: not set, or the
\* longest one.
ArgDurations == {0, MaxDuration}

\* The shell is at its prompt and capture() has not been called.  A duration
\* of 0 stands for a duration that is not set.
SessionInit ==
    /\ coord_pc = "idle"
    /\ coord_result = "none"
    /\ coord_err = "none"
    /\ params_duration \in 0..MaxDuration
    /\ arg_duration \in ArgDurations
    /\ time_waited = 0
    /\ gps_mode = 0
    /\ initialize_flag = FALSE
    /\ start_flag = FALSE
    /\ thread = [w \in Workers |-> "none"]
    /\ cap_err = "none"
    /\ curr_line = <<>>
    /\ cap_elapsed = 0
    /\ proc = "none"
    /\ stderr = <<>>
    /\ marker_emitted = FALSE
    /\ queue = [w \in Reporting |-> <<>>]
    /\ collected = <<>>
    /\ meta_written = 0
    /\ joined = {}
    /\ sec = 0
    /\ sleep_left = 0
    /\ shell_pc = "prompt"

Init == SessionInit /\ ProcessIdle /\ LocateIdle /\ DirectoryIdle

coordVars == <<coord_pc, coord_result, coord_err, time_waited, gps_mode,
               collected, meta_written, joined, sec, sleep_left>>
captureVars == <<cap_err, curr_line, cap_elapsed>>
procVars == <<proc, stderr, marker_emitted>>

(***************************************************************************)
(* capture(): working folder                                               *)
(***************************************************************************)
\* os.makedirs / os.access; on failure exit(1).
CoordMkdir ==
    /\ coord_pc = "mkdir"
    /\ \E ok \in BOOLEAN :
          IF ok
          THEN /\ coord_pc' = After("mkdir")
               /\ coord_err' = coord_err
          ELSE /\ coord_pc' = "exited"
               /\ coord_err' = "SystemExit:workdir"
    /\ UNCHANGED <<shell_pc, offlineVars, coord_result, params_duration, time_waited, gps_mode,
                   initialize_flag, start_flag, thread, captureVars, procVars,
                   queue, collected, meta_written, joined, sec, sleep_left>>

(***************************************************************************)
(* capture(): the four threads are created and started                     *)
(***************************************************************************)
\* A gated thread is constructed and start()ed; its run() waits on _start_flag.
CoordSetupGated(w) ==
    /\ coord_pc = "setup_" \o w
    /\ coord_pc' = After(coord_pc)
    /\ thread' = [thread EXCEPT ![w] = "waiting"]
    /\ UNCHANGED <<shell_pc, offlineVars, coord_result, coord_err, params_duration, time_waited,
                   gps_mode, initialize_flag, start_flag, captureVars, procVars,
                   queue, collected, meta_written, joined, sec, sleep_left>>

\* CaptureThread.__init__ runs in the coordinator: shutil.which("dumpcap") is
\* None -> exit(1); interface not in monitor mode after set_interface_mode ->
\* the assert fails.  Otherwise the thread is started and waits on
\* _initialize_flag.
CoordSetupCapture ==
    /\ coord_pc = "setup_capture"
    /\ \E installed \in BOOLEAN, monitor \in BOOLEAN :
          IF ~installed
          THEN /\ coord_pc' = "exited"
               /\ coord_err' = "SystemExit:dumpcap"
               /\ thread' = thread
          ELSE IF ~monitor
          THEN /\ coord_pc' = "exited"
               /\ coord_err' = "AssertionError:monitor"
               /\ thread' = thread
          ELSE /\ coord_pc' = After("setup_capture")
               /\ coord_err' = coord_err
               /\ thread' = [thread EXCEPT !["capture"] = "wait_init"]
    /\ UNCHANGED <<shell_pc, offlineVars, coord_result, params_duration, time_waited, gps_mode,
                   initialize_flag, start_flag, captureVars, procVars, queue,
                   collected, meta_written, joined, sec, sleep_left>>

(***************************************************************************)
(* capture(): wait for the GPS 3D fix                                      *)
(***************************************************************************)
\* One evaluation of the loop condition: gpsd.get_current().mode is read; with
\* a 3D fix the loop ends and _initialize_flag.set() follows, otherwise the
\* body sleeps a second and counts it.
CoordGpsPoll ==
    /\ coord_pc = "gps_wait"
    /\ \E mode \in 0..FixMode :
          /\ gps_mode' = mode
          /\ IF mode = FixMode
             THEN /\ initialize_flag' = TRUE
                  /\ coord_pc' = After("gps_wait")
                  /\ time_waited' = time_waited
             ELSE /\ time_waited < MaxWait
                  /\ time_waited' = time_waited + 1
                  /\ initialize_flag' = initialize_flag
                  /\ coord_pc' = coord_pc
    /\ UNCHANGED <<shell_pc, offlineVars, coord_result, coord_err, params_duration, start_flag, thread,
                   captureVars, procVars, queue, collected, meta_written,
                   joined, sec, sleep_left>>

\* KeyboardInterrupt inside the fix loop: print, return False.
CoordInterrupt ==
    /\ coord_pc = "gps_wait"
    /\ coord_pc' = "returned"
    /\ coord_result' = "False"
    /\ UNCHANGED <<shell_pc, offlineVars, coord_err, params_duration, time_waited, gps_mode,
                   initialize_flag, start_flag, thread, captureVars, procVars,
                   queue, collected, meta_written, joined, sec, sleep_left>>

(***************************************************************************)
(* capture(): the duration timer, trange(duration + 1) of time.sleep(1)    *)
(***************************************************************************)
CoordSleepIter ==
    /\ coord_pc = "sleep"
    /\ sleep_left = 0
    /\ sec < params_duration + 1
    /\ sec' = sec + 1
    /\ sleep_left' = 1
    /\ UNCHANGED <<shell_pc, offlineVars, coord_pc, coord_result, coord_err, params_duration,
                   time_waited, gps_mode, initialize_flag, start_flag, thread,
                   captureVars, procVars, queue, collected, meta_written,
                   joined>>

CoordSleepDone ==
    /\ coord_pc = "sleep"
    /\ sleep_left = 0
    /\ sec = params_duration + 1
    /\ coord_pc' = After("sleep")
    /\ UNCHANGED <<shell_pc, offlineVars, coord_result, coord_err, params_duration, time_waited,
                   gps_mode, initialize_flag, start_flag, thread, captureVars,
                   procVars, queue, collected, meta_written, joined, sec,
                   sleep_left>>

(***************************************************************************)
(* capture(): result collection, queue.get() without a timeout             *)
(***************************************************************************)
CoordGet(w) ==
    /\ coord_pc = "get_" \o w
    /\ queue[w] # <<>>
    /\ queue' = [queue EXCEPT ![w] = Tail(queue[w])]
    /\ collected' = Append(collected, w)
    /\ coord_pc' = After(coord_pc)
    /\ UNCHANGED <<shell_pc, offlineVars, coord_result, coord_err, params_duration, time_waited,
                   gps_mode, initialize_flag, start_flag, thread, captureVars,
                   procVars, meta_written, joined, sec, sleep_left>>

(***************************************************************************)
(* capture(): the metadata csv                                             *)
(***************************************************************************)
\* Mutant: the row is written a second time.
CoordWriteMetaTwice ==
    /\ coord_pc = "write_meta"
    /\ meta_written' = meta_written + 2
    /\ coord_pc' = After("write_meta")
    /\ UNCHANGED <<shell_pc, offlineVars, coord_result, coord_err,
                   params_duration, time_waited, gps_mode, initialize_flag,
                   start_flag, thread, captureVars, procVars, queue, collected,
                   joined, sec, sleep_left>>

CoordWriteMeta ==
    /\ coord_pc = "write_meta"
    /\ meta_written' = meta_written + 1
    /\ coord_pc' = After("write_meta")
    /\ UNCHANGED <<shell_pc, offlineVars, coord_result, coord_err, params_duration, time_waited,
                   gps_mode, initialize_flag, start_flag, thread, captureVars,
                   procVars, queue, collected, joined, sec, sleep_left>>

(***************************************************************************)
(* capture(): Thread.join() of the four threads, then return               *)
(***************************************************************************)
CoordJoin(w) ==
    /\ coord_pc = "join_" \o w
    /\ Terminated(w)
    /\ joined' = joined \cup {w}
    /\ coord_pc' = After(coord_pc)
    /\ UNCHANGED <<shell_pc, offlineVars, coord_result, coord_err, params_duration, time_waited,
                   gps_mode, initialize_flag, start_flag, thread, captureVars,
                   procVars, queue, collected, meta_written, sec, sleep_left>>

CoordReturn ==
    /\ coord_pc = "return"
    /\ coord_pc' = After("return")
    /\ coord_result' = "session"
    /\ UNCHANGED <<shell_pc, offlineVars, coord_err, params_duration, time_waited, gps_mode,
                   initialize_flag, start_flag, thread, captureVars, procVars,
                   queue, collected, meta_written, joined, sec, sleep_left>>

(***************************************************************************)
(* Lines of the subprocess's diagnostic stream, as sequences of words      *)
(***************************************************************************)
MarkerLine == <<"File:", "capture.pcapng">>
InfoLine == <<"Capturing", "on", "iface">>
StatsLine == <<"Packets", "received/dropped on interface", "iface:", "7/0">>

\* curr_line.startswith("File:")
StartsWithFile(line) == Len(line) > 0 /\ line[1] = "File:"

\* re.search("(?<=dropped on interface\s')(?:\S+':\s)(\d+)/(\d+)", text) finds
\* the two counts: some line of the text carries them.
StatsMatch(text) ==
    \E i \in 1..Len(text) :
        /\ Len(text[i]) = 4
        /\ text[i][2] = "received/dropped on interface"

\* Mutant: dumpcap is spawned without waiting for _initialize_flag.
CapSpawnUngated ==
    /\ thread["capture"] = "wait_init"
    /\ proc' = "running"
    /\ cap_elapsed' = 0
    /\ thread' = [thread EXCEPT !["capture"] = "loop"]
    /\ UNCHANGED <<shell_pc, offlineVars, coordVars, params_duration, initialize_flag, start_flag,
                   cap_err, curr_line, stderr, marker_emitted, queue>>

(***************************************************************************)
(* CaptureThread.run                                                       *)
(***************************************************************************)
\* self._initialize_flag.wait(); _start_time; Popen(command); _timeout_start.
CapSpawn ==
    /\ thread["capture"] = "wait_init"
    /\ initialize_flag
    /\ proc' = "running"
    /\ cap_elapsed' = 0
    /\ thread' = [thread EXCEPT !["capture"] = "loop"]
    /\ UNCHANGED <<shell_pc, offlineVars, coordVars, params_duration, initialize_flag, start_flag,
                   cap_err, curr_line, stderr, marker_emitted, queue>>

\* Mutant: the 5 second check leaves the loop instead of raising, so the
\* statement after the loop, self._start_flag.set(), runs.
CapReadlineBreaks ==
    /\ thread["capture"] = "loop"
    /\ ~StartsWithFile(curr_line)
    /\ stderr # <<>> \/ proc = "exited"
    /\ curr_line' = IF stderr # <<>> THEN Head(stderr) ELSE <<>>
    /\ stderr' = IF stderr # <<>> THEN Tail(stderr) ELSE stderr
    /\ IF cap_elapsed > StartTimeout
       THEN /\ thread' = [thread EXCEPT !["capture"] = "proc_wait"]
            /\ start_flag' = TRUE
       ELSE /\ thread' = thread
            /\ start_flag' = start_flag
    /\ UNCHANGED <<shell_pc, offlineVars, coordVars, params_duration, initialize_flag, cap_err,
                   cap_elapsed, proc, marker_emitted, queue>>

\* One iteration of  while not curr_line.startswith("File:"):  the blocking
\* proc.stderr.readline() returns the next line, or "" at end of file, and
\* blocks while the stream is open and empty; then the 5 second check raises
\* TimeoutError or the thread sleeps .1 s.
CapReadline ==
    /\ thread["capture"] = "loop"
    /\ ~StartsWithFile(curr_line)
    /\ stderr # <<>> \/ proc = "exited"
    /\ curr_line' = IF stderr # <<>> THEN Head(stderr) ELSE <<>>
    /\ stderr' = IF stderr # <<>> THEN Tail(stderr) ELSE stderr
    /\ IF cap_elapsed > StartTimeout
       THEN /\ thread' = [thread EXCEPT !["capture"] = "dead"]
            /\ cap_err' = "TimeoutError"
       ELSE /\ thread' = thread
            /\ cap_err' = cap_err
    /\ UNCHANGED <<shell_pc, offlineVars, coordVars, params_duration, initialize_flag, start_flag,
                   cap_elapsed, proc, marker_emitted, queue>>

\* Mutant: the loop ends on any line that is not empty.
CapStartAnyLine ==
    /\ thread["capture"] = "loop"
    /\ curr_line # <<>>
    /\ start_flag' = TRUE
    /\ thread' = [thread EXCEPT !["capture"] = "proc_wait"]
    /\ UNCHANGED <<shell_pc, offlineVars, coordVars, params_duration, initialize_flag, captureVars,
                   procVars, queue>>

\* The loop condition fails on a "File:" line: self._start_flag.set().
CapStart ==
    /\ thread["capture"] = "loop"
    /\ StartsWithFile(curr_line)
    /\ start_flag' = TRUE
    /\ thread' = [thread EXCEPT !["capture"] = "proc_wait"]
    /\ UNCHANGED <<shell_pc, offlineVars, coordVars, params_duration, initialize_flag, captureVars,
                   procVars, queue>>

\* Mutant: the statistics are parsed and the result is not put.
CapFinishNoPut ==
    /\ thread["capture"] = "proc_wait"
    /\ proc = "exited"
    /\ stderr' = <<>>
    /\ IF StatsMatch(stderr)
       THEN /\ queue' = queue
            /\ thread' = [thread EXCEPT !["capture"] = "posted"]
            /\ cap_err' = cap_err
       ELSE /\ queue' = queue
            /\ thread' = [thread EXCEPT !["capture"] = "dead"]
            /\ cap_err' = "ValueError"
    /\ UNCHANGED <<shell_pc, offlineVars, coordVars, params_duration, initialize_flag, start_flag,
                   curr_line, cap_elapsed, proc, marker_emitted>>

\* proc.wait(); proc.stderr.read() takes what is left of the stream; the counts
\* are put on the response queue, or ValueError("Capture failed") is raised.
CapFinish ==
    /\ thread["capture"] = "proc_wait"
    /\ proc = "exited"
    /\ stderr' = <<>>
    /\ IF StatsMatch(stderr)
       THEN /\ queue' = [queue EXCEPT !["capture"] = Append(@, "capture")]
            /\ thread' = [thread EXCEPT !["capture"] = "posted"]
            /\ cap_err' = cap_err
       ELSE /\ queue' = queue
            /\ thread' = [thread EXCEPT !["capture"] = "dead"]
            /\ cap_err' = "ValueError"
    /\ UNCHANGED <<shell_pc, offlineVars, coordVars, params_duration, initialize_flag, start_flag,
                   curr_line, cap_elapsed, proc, marker_emitted>>

\* run() returns after the put and the thread terminates.
CapExit ==
    /\ thread["capture"] = "posted"
    /\ thread' = [thread EXCEPT !["capture"] = "done"]
    /\ UNCHANGED <<shell_pc, offlineVars, coordVars, params_duration,
                   initialize_flag, start_flag, captureVars, procVars, queue>>

(***************************************************************************)
(* The dumpcap subprocess (environment)                                    *)
(***************************************************************************)
\* The subprocess writes a line to stderr; it writes its "File:" line at most
\* once.
ProcEmit(line) ==
    /\ proc = "running"
    /\ Len(stderr) < MaxLines
    /\ line = MarkerLine => ~marker_emitted
    /\ stderr' = Append(stderr, line)
    /\ marker_emitted' = (marker_emitted \/ line = MarkerLine)
    /\ UNCHANGED <<shell_pc, offlineVars, coordVars, params_duration, initialize_flag, start_flag,
                   thread, captureVars, proc, queue>>

\* The subprocess exits, with or without a parseable statistics line, and its
\* end of the stream closes.
ProcExit(stats) ==
    /\ proc = "running"
    /\ proc' = "exited"
    /\ stderr' = IF stats THEN Append(stderr, StatsLine) ELSE stderr
    /\ UNCHANGED <<shell_pc, offlineVars, coordVars, params_duration, initialize_flag, start_flag,
                   thread, captureVars, marker_emitted, queue>>

(***************************************************************************)
(* GPSThread, AntennaStepperThread, ChannelHopper                          *)
(***************************************************************************)
\* The thread's wait on _start_flag returns and its run begins.
WorkerRelease(w) ==
    /\ thread[w] = "waiting"
    /\ start_flag
    /\ thread' = [thread EXCEPT ![w] = "running"]
    /\ UNCHANGED <<shell_pc, offlineVars, coordVars, params_duration, initialize_flag, start_flag,
                   captureVars, procVars, queue>>

\* The run is over: GPS and antenna put one result, the hopper puts none.
WorkerFinish(w) ==
    /\ thread[w] = "running"
    /\ thread' = [thread EXCEPT ![w] = "done"]
    /\ queue' = IF w \in Reporting
                THEN [queue EXCEPT ![w] = Append(@, w)]
                ELSE queue
    /\ UNCHANGED <<shell_pc, offlineVars, coordVars, params_duration, initialize_flag, start_flag,
                   captureVars, procVars>>

\* The thread dies of an exception during its run and puts nothing.
WorkerCrash(w) ==
    /\ thread[w] = "running"
    /\ thread' = [thread EXCEPT ![w] = "dead"]
    /\ UNCHANGED <<shell_pc, offlineVars, coordVars, params_duration, initialize_flag, start_flag,
                   captureVars, procVars, queue>>

(***************************************************************************)
(* One second passes                                                       *)
(***************************************************************************)
Tick ==
    /\ cap_elapsed' = IF thread["capture"] = "loop"
                      THEN Min(cap_elapsed + 1, StartTimeout + 1)
                      ELSE cap_elapsed
    /\ sleep_left' = Max(0, sleep_left - 1)
    /\ UNCHANGED <<shell_pc, offlineVars, coord_pc, coord_result, coord_err, params_duration,
                   time_waited, gps_mode, initialize_flag, start_flag, thread,
                   cap_err, curr_line, procVars, queue, collected,
                   meta_written, joined, sec>>

(***************************************************************************)
(* The capture commands of the two shells.  A call of capture.capture is   *)
(* taken to enter the body of capture(), which reads localizer.params.     *)
(***************************************************************************)
\* self._params.validate(): 'iface' and 'duration' are set.
Validate == arg_duration > 0

\* LocalizerShell.do_capture: without valid parameters an error is logged and
\* capture() is not called.
ShellDoCapture ==
    /\ shell_pc = "prompt"
    /\ IF Validate
       THEN /\ shell_pc' = "capture"
            /\ coord_pc' = CoordOrder[1]
       ELSE /\ shell_pc' = "rejected"
            /\ coord_pc' = coord_pc
    /\ UNCHANGED <<offlineVars, coord_result, coord_err, params_duration,
                   time_waited, gps_mode, initialize_flag, start_flag, thread,
                   captureVars, procVars, queue, collected, meta_written,
                   joined, sec, sleep_left>>

\* BatchShell.do_capture: capture() is called for a test of an imported batch.
BatchDoCapture ==
    /\ shell_pc = "prompt"
    /\ shell_pc' = "batch_capture"
    /\ coord_pc' = CoordOrder[1]
    /\ UNCHANGED <<offlineVars, coord_result, coord_err, params_duration,
                   time_waited, gps_mode, initialize_flag, start_flag, thread,
                   captureVars, procVars, queue, collected, meta_written,
                   joined, sec, sleep_left>>

\* BatchShell.do_capture: capture() has returned, _curr += 1.
BatchAfterCapture ==
    /\ shell_pc = "batch_capture"
    /\ coord_pc = "returned"
    /\ shell_pc' = "done"
    /\ UNCHANGED <<offlineVars, coordVars, params_duration, initialize_flag,
                   start_flag, thread, captureVars, procVars, queue>>

(***************************************************************************)
(* LocalizerShell.do_capture after capture() has returned                  *)
(***************************************************************************)
\* _capture_path, _meta = <what capture() returned>: unpacking False raises
\* TypeError.  With self._params.process set, process_capture is called and
\* loads the packets of meta["pcap"] (the raw capture file).
ShellAfterCapture ==
    /\ shell_pc = "capture"
    /\ coord_pc = "returned"
    /\ IF coord_result = "False"
       THEN shell_pc' = "TypeError"
       ELSE \E process \in BOOLEAN :
               shell_pc' = IF process THEN "process_capture" ELSE "done"
    /\ UNCHANGED <<offlineVars, coordVars, params_duration, initialize_flag,
                   start_flag, thread, captureVars, procVars, queue>>

\* process_capture returns.
ShellProcessed ==
    /\ shell_pc = "process_capture"
    /\ shell_pc' = "done"
    /\ UNCHANGED <<offlineVars, coordVars, params_duration, initialize_flag,
                   start_flag, thread, captureVars, procVars, queue>>

ShellStep ==
    \/ ShellDoCapture
    \/ BatchDoCapture
    \/ BatchAfterCapture
    \/ ShellAfterCapture
    \/ ShellProcessed

(***************************************************************************)
(* Specifications                                                          *)
(***************************************************************************)
CoordStep ==
    \/ CoordMkdir
    \/ \E w \in Gated : CoordSetupGated(w)
    \/ CoordSetupCapture
    \/ CoordGpsPoll
    \/ CoordSleepIter
    \/ CoordSleepDone
    \/ \E w \in Reporting : CoordGet(w)
    \/ CoordWriteMeta
    \/ \E w \in Workers : CoordJoin(w)
    \/ CoordReturn

CaptureStep == CapSpawn \/ CapReadline \/ CapStart \/ CapFinish \/ CapExit

WorkerStep(w) == WorkerRelease(w) \/ WorkerFinish(w)

Environment ==
    \/ CoordInterrupt
    \/ \E line \in {MarkerLine, InfoLine} : ProcEmit(line)
    \/ \E stats \in BOOLEAN : ProcExit(stats)
    \/ \E w \in Gated : WorkerCrash(w)

Next ==
    \/ CoordStep
    \/ ShellStep
    \/ CaptureStep
    \/ \E w \in Gated : WorkerStep(w)
    \/ Environment
    \/ Tick

Spec == Init /\ [][Next]_vars

\* Every thread that can take a step is eventually scheduled, and time passes.
\* Nothing is assumed of the environment: the operator, the subprocess and
\* the hardware behind the workers.
FairSpec ==
    /\ Spec
    /\ WF_vars(CoordStep)
    /\ WF_vars(ShellStep)
    /\ WF_vars(CaptureStep)
    /\ \A w \in Gated : WF_vars(WorkerStep(w))
    /\ WF_vars(Tick)

\* The fair behaviours of a session of the longest duration: the duration only
\* sets the number of iterations of the coordinator's timer loop.
LongInit == Init /\ params_duration = MaxDuration /\ arg_duration = MaxDuration

FairLongSpec ==
    /\ LongInit
    /\ [][Next]_vars
    /\ WF_vars(CoordStep)
    /\ WF_vars(ShellStep)
    /\ WF_vars(CaptureStep)
    /\ \A w \in Gated : WF_vars(WorkerStep(w))
    /\ WF_vars(Tick)

(***************************************************************************)
(* process_capture: one results row per decoded packet, its bearing from   *)
(* the packet's time and the rotation schedule in meta.  Python's float    *)
(* division is modelled exactly: a quotient is a pair <<numerator,         *)
(* denominator>> with a positive denominator.                              *)
(***************************************************************************)
MaxStart == 1        \* meta["start"] ranges over 0..MaxStart
MaxTime == 12        \* packet times range over 0..MaxTime
MaxPackets == 2      \* packets in the capture file

Times == 0..MaxTime
Sweeps == {-90, 0, 360}
StartBearings == {0, 45}

\* The schedules: the antenna's stop instant is after its start instant.
Schedules ==
    { [start |-> a, end |-> b, degrees |-> d, bearing |-> c] :
        a \in 0..MaxStart, b \in 1..(MaxTime - 1), d \in Sweeps,
        c \in StartBearings }

RatEq(x, y) == x[1] * y[2] = y[1] * x[2]
RatLeq(x, y) == x[1] * y[2] <= y[1] * x[2]
RatLess(x, y) == x[1] * y[2] < y[1] * x[2]
Whole(n) == <<n, 1>>

\* Mutant: a negative pdiff is not replaced by 0.
PbearingNoFloor(ptime, m) ==
    LET total_time == m.end - m.start
        pdiff == ptime - m.start
        pprogress == <<pdiff, total_time>>
    IN  <<pprogress[1] * m.degrees + m.bearing * pprogress[2], pprogress[2]>>

\* Mutant: pdiff is also limited to total_time.
PbearingCeiling(ptime, m) ==
    LET total_time == m.end - m.start
        pdiff0 == ptime - m.start
        pdiff == IF pdiff0 <= 0 THEN 0
                 ELSE IF pdiff0 >= total_time THEN total_time ELSE pdiff0
        pprogress == <<pdiff, total_time>>
    IN  <<pprogress[1] * m.degrees + m.bearing * pprogress[2], pprogress[2]>>

\* Mutant: the bearing is reduced modulo 360.
PbearingWrapped(ptime, m) ==
    LET total_time == m.end - m.start
        pdiff0 == ptime - m.start
        pdiff == IF pdiff0 <= 0 THEN 0 ELSE pdiff0
        pprogress == <<pdiff, total_time>>
    IN  <<(pprogress[1] * m.degrees + m.bearing * pprogress[2])
              % (360 * pprogress[2]), pprogress[2]>>

\* total_time = meta["end"] - meta["start"]; pdiff = ptime - meta["start"];
\* if pdiff <= 0: pdiff = 0; pprogress = pdiff / total_time;
\* pbearing = pprogress * meta["degrees"] + meta["bearing"]
Pbearing(ptime, m) ==
    LET total_time == m.end - m.start
        pdiff0 == ptime - m.start
        pdiff == IF pdiff0 <= 0 THEN 0 ELSE pdiff0
        pprogress == <<pdiff, total_time>>
    IN  <<pprogress[1] * m.degrees + m.bearing * pprogress[2], pprogress[2]>>

\* process_capture is called with a schedule; nothing has been read yet.
ProcessInit ==
    /\ SessionInit
    /\ params_duration = 1
    /\ arg_duration = MaxDuration
    /\ LocateIdle
    /\ DirectoryIdle
    /\ meta \in {m \in Schedules : m.end > m.start}
    /\ results = <<>>
    /\ beacon_count = 0
    /\ beacon_failures = 0
    /\ frames_read = 0

\* The loop body for a packet whose fields are all present: a row is written.
ProcessPacket(ptime) ==
    /\ frames_read < MaxPackets
    /\ frames_read' = frames_read + 1
    /\ results' = Append(results, [timestamp |-> ptime,
                                   bearing |-> Pbearing(ptime, meta)])
    /\ beacon_count' = beacon_count + 1
    /\ UNCHANGED <<sessionVars, callerVars, locateVars, directoryVars, meta, beacon_failures>>

\* Mutant: the packet that lacks a field is skipped without being counted.
ProcessPacketFailureUncounted ==
    /\ frames_read < MaxPackets
    /\ frames_read' = frames_read + 1
    /\ UNCHANGED <<sessionVars, callerVars, locateVars, directoryVars, meta, results, beacon_count,
                   beacon_failures>>

\* The loop body for a packet that lacks a field: AttributeError, the packet is
\* counted as a failure and skipped.
ProcessPacketFailure ==
    /\ frames_read < MaxPackets
    /\ frames_read' = frames_read + 1
    /\ beacon_failures' = beacon_failures + 1
    /\ UNCHANGED <<sessionVars, callerVars, locateVars, directoryVars, meta, results, beacon_count>>

ProcessNext ==
    \/ \E ptime \in Times : ProcessPacket(ptime)
    \/ ProcessPacketFailure

ProcessSpec == ProcessInit /\ [][ProcessNext]_vars

(***************************************************************************)
(* locate.py: prep_for_interpolation and interpolate.  A row of the        *)
(* dataframe is [bearing2, mw]: its bearing in half degrees, so that       *)
(* rounding has something to do, and its signal in linear units.  A pandas *)
(* Series over consecutive integer labels is [first, values]: the label of *)
(* its first entry and its entries in order, <<>> for NaN and <<v>> for a  *)
(* value v.                                                                *)
(***************************************************************************)
MaxSamples == 3      \* rows of the dataframe
MaxSignal == 2       \* mw ranges over 1..MaxSignal

Circle == 360        \* degrees of the dense index, np.arange(0, 360)

\* 9.5, 10.0, 10.5 and 20.0 degrees
SampleBearings == {19, 20, 21, 40}
SampleRows == {[bearing2 |-> b, mw |-> v] : b \in SampleBearings, v \in 1..MaxSignal}
BearingArgs == {359, 360}

SetMax(S) == CHOOSE x \in S : \A y \in S : y <= x
SetMin(S) == CHOOSE x \in S : \A y \in S : x <= y

\* np.round of a number of half degrees: to the nearest integer, a half to the
\* even neighbour.
Round2(h) ==
    IF h % 2 = 0 THEN h \div 2
    ELSE LET below == (h - 1) \div 2
         IN  IF below % 2 = 0 THEN below ELSE below + 1

\* sort_values('deg'): the rows in ascending order of bearing.
RECURSIVE SortByDeg(_)
SortByDeg(rows) ==
    IF rows = <<>> THEN <<>>
    ELSE LET rest == SortByDeg(Tail(rows))
             r == Head(rows)
             k == Cardinality({i \in 1..Len(rest) : rest[i].bearing2 < r.bearing2})
         IN  SubSeq(rest, 1, k) \o <<r>> \o SubSeq(rest, k + 1, Len(rest))

\* df['deg'] = np.round(df['deg'])
Rounded(rows) ==
    [i \in 1..Len(rows) |-> [deg |-> Round2(rows[i].bearing2), mw |-> rows[i].mw]]

\* df.duplicated('deg', keep=False).any()
Duplicated(df) ==
    \E i \in 1..Len(df), j \in 1..Len(df) : i # j /\ df[i].deg = df[j].deg

\* Mutant: the first row of the group is kept (drop_duplicates).
GroupFirst(df, d) ==
    df[SetMin({i \in 1..Len(df) : df[i].deg = d})].mw

\* z.loc[z.mw.idxmax()] of the group of degree d: its row of largest mw.
GroupPeak(df, d) ==
    SetMax({df[i].mw : i \in {k \in 1..Len(df) : df[k].deg = d}})

\* groupby('deg').apply(...): one row per degree, in ascending order of degree.
RECURSIVE GroupRows(_, _)
GroupRows(df, degs) ==
    IF degs = {} THEN <<>>
    ELSE LET d == SetMin(degs)
         IN  <<[deg |-> d, mw |-> GroupPeak(df, d)]>> \o GroupRows(df, degs \ {d})

Grouped(df) == GroupRows(df, {df[i].deg : i \in 1..Len(df)})

AllNaN == [d \in 1..Circle |-> <<>>]

\* Mutant: a row is placed by position instead of by label, one entry early.
RECURSIVE PlaceShifted(_, _, _)
PlaceShifted(df, i, values) ==
    IF i > Len(df) THEN values
    ELSE PlaceShifted(df, i + 1,
                      IF df[i].deg \in 1..Circle
                      THEN [values EXCEPT ![df[i].deg] = <<df[i].mw>>]
                      ELSE values)

ReindexShifted(df) == [first |-> 0, values |-> PlaceShifted(df, 1, AllNaN)]

\* set_index('deg').reindex(np.arange(0, 360)).iloc[:, 0]: the mw of each
\* degree 0..359 that has a row, NaN for the others; rows of other degrees
\* are dropped.
RECURSIVE Place(_, _, _)
Place(df, i, values) ==
    IF i > Len(df) THEN values
    ELSE Place(df, i + 1,
               IF df[i].deg \in 0..(Circle - 1)
               THEN [values EXCEPT ![df[i].deg + 1] = <<df[i].mw>>]
               ELSE values)

Reindex(df) == [first |-> 0, values |-> Place(df, 1, AllNaN)]

\* Mutant: the series is extended only for a bearing above 360.
ExtendAbove(series_mid, bearing) ==
    IF bearing > 360
    THEN [first |-> 0 - Circle,
          values |-> series_mid.values \o series_mid.values \o series_mid.values]
    ELSE series_mid

\* if bearing >= 360: pd.concat([series_left, series_mid, series_right]), the
\* copies of series_mid labelled -360..-1 and 360..719.
Extend(series_mid, bearing) ==
    IF bearing >= 360
    THEN [first |-> 0 - Circle,
          values |-> series_mid.values \o series_mid.values \o series_mid.values]
    ELSE series_mid

PrepForInterpolation(rows, bearing) ==
    LET df == Rounded(SortByDeg(rows))
        peak == IF Duplicated(df) THEN Grouped(df) ELSE df
    IN  Extend(Reindex(peak), bearing)

\* if 0 > len(series) <= 1 ... elif 1 > len(series) <= 2 ... else: a chained
\* comparison a > n <= b is (a > n) and (n <= b).
MethodFor(n) ==
    IF 0 > n /\ n <= 1 THEN "slinear"
    ELSE IF 1 > n /\ n <= 2 THEN "naive"
    ELSE "pchip"

\* The entry of a series at label d.
At(s, d) == s.values[d - s.first + 1]

Labels(s) == s.first..(s.first + Len(s.values) - 1)

\* The labels of a series that hold a value.
Valued(s) == {d \in Labels(s) : At(s, d) # <<>>}

\* series[np.arange(0, 360)]: the entries of labels 0..359.
Restricted(s) ==
    [first |-> 0, values |-> SubSeq(s.values, 1 - s.first, Circle - s.first)]

\* An entry as a fraction <<numerator, denominator>>.
AsRat(e) == IF Len(e) = 1 THEN <<e[1], 1>> ELSE e

\* Series.idxmax: the first label of the largest value, NaN entries skipped.
\* IdxMaxIn is the position of that entry among positions lo..hi, 0 for none.
RECURSIVE IdxMaxIn(_, _, _)
IdxMaxIn(s, lo, hi) ==
    IF lo > hi THEN 0
    ELSE IF lo = hi THEN (IF s.values[lo] = <<>> THEN 0 ELSE lo)
    ELSE LET mid == (lo + hi) \div 2
             left == IdxMaxIn(s, lo, mid)
             right == IdxMaxIn(s, mid + 1, hi)
         IN  IF left = 0 THEN right
             ELSE IF right = 0 THEN left
             ELSE IF RatLess(AsRat(s.values[left]), AsRat(s.values[right]))
                  THEN right
                  ELSE left

\* idxmax of a series with no value returns NaN in the pandas of the
\* repository's time and raises ValueError in later ones.
IdxMax(s) ==
    LET best == IdxMaxIn(s, 1, Len(s.values))
    IN  IF best = 0 THEN <<>> ELSE <<s.first + best - 1>>

\* The set S of integers in ascending order.
RECURSIVE Ascending(_)
Ascending(S) ==
    IF S = {} THEN <<>>
    ELSE LET d == SetMin(S) IN <<d>> \o Ascending(S \ {d})

\* The line through (a, ya) and (b, yb) at d, as a fraction.
Line(a, ya, b, yb, d) == <<ya * (b - d) + yb * (d - a), b - a>>

\* The entries of labels from..to on the piece fitted to the knots a and b.
\* The fitting itself is scipy's: it goes through the knots and stays between
\* the values of neighbouring knots in between.  The curve taken here is the
\* piecewise linear one, which is also pchip's for two knots.
Piece(s, a, b, from, to) ==
    [k \in 1..(to - from + 1) |-> Line(a, At(s, a)[1], b, At(s, b)[1], from + k - 1)]

\* The pieces between the knots ks[i], ks[i + 1], ..., the last one continued
\* to the last label of the series.
RECURSIVE Pieces(_, _, _)
Pieces(s, ks, i) ==
    IF i = Len(ks) - 1
    THEN Piece(s, ks[i], ks[i + 1], ks[i], s.first + Len(s.values) - 1)
    ELSE Piece(s, ks[i], ks[i + 1], ks[i], ks[i + 1] - 1) \o Pieces(s, ks, i + 1)

\* series.interpolate(method=method) of a series whose valued labels are ks in
\* ascending order, two or more: the
\* labels before the first knot stay NaN, the labels after the last knot get
\* the continuation of the last piece.  A series with no value is returned as
\* it is.
SeriesInter(s, ks) ==
    IF ks = <<>> THEN s
    ELSE [first |-> s.first,
          values |-> SubSeq(s.values, 1, ks[1] - s.first) \o Pieces(s, ks, 1)]

\* What a call returns or raises.
Returns(g) == [guess |-> g, err |-> "none"]
Raises(e) == [guess |-> <<>>, err |-> e]

\* The outcomes of idxmax.
IdxMaxOutcomes(s) ==
    LET label == IdxMax(s)
    IN  IF label = <<>> THEN {Returns(<<>>), Raises("ValueError")}
        ELSE {Returns(label)}

\* locate_naive
LocateNaive(s) ==
    IdxMaxOutcomes(IF Len(s.values) > 360 THEN Restricted(s) ELSE s)

\* locate_interpolate: scipy cannot fit a single knot and raises.
LocateInterpolate(s, m) ==
    LET ks == Ascending(Valued(s))
    IN  IF Len(ks) = 1 THEN {Raises("ValueError"), Raises("IndexError")}
        ELSE IdxMaxOutcomes(Restricted(SeriesInter(s, ks)))

\* _error_methods[_method]
ErrorMethods(m, s) ==
    IF m = "naive" THEN LocateNaive(s) ELSE LocateInterpolate(s, m)

\* interpolate is called with a dataframe and a bearing.
LocateInit ==
    /\ SessionInit
    /\ params_duration = 1
    /\ arg_duration = MaxDuration
    /\ ProcessIdle
    /\ DirectoryIdle
    /\ samples \in UNION {[1..n -> SampleRows] : n \in 0..MaxSamples}
    /\ bearing_arg \in BearingArgs
    /\ series = <<>>
    /\ method = "none"
    /\ guess = <<>>
    /\ locate_err = "none"

\* interpolate: the method is chosen by the number of rows, the series is
\* prepared and the method's locator is applied to it.
Interpolate ==
    /\ method = "none"
    /\ method' = MethodFor(Len(samples))
    /\ series' = PrepForInterpolation(samples, bearing_arg)
    /\ \E out \in ErrorMethods(method', series') :
           /\ guess' = out.guess
           /\ locate_err' = out.err
    /\ UNCHANGED <<sessionVars, callerVars, processVars, directoryVars, samples, bearing_arg>>

LocateNext == Interpolate

LocateSpec == LocateInit /\ [][LocateNext]_vars

(***************************************************************************)
(* capture.py: process_directory.  A session directory is the set of the   *)
(* suffixes its files end with; its metadata file, if there is one, holds  *)
(* the record capture() wrote.                                             *)
(***************************************************************************)
Dirs == {"d1", "d2"}

\* _capture_suffixes and _processed_suffix
CaptureSuffixes == {".nmea", ".pcapng", "-test.csv", "-gps.csv"}
ProcessedSuffix == "-results.csv"

\* The records capture() may have written: a full turn begun at instant 1.
MetaRecords == {m \in Schedules : m.start = 1 /\ m.end = 2 /\ m.degrees = 360}

Limits == {0, 1, 2}

\* _check_capture_dir: a file of every capture suffix is there.
CheckCaptureDir(d) == \A suffix \in CaptureSuffixes : suffix \in dir_files[d]

\* _check_capture_processed: a file of the processed suffix is there.
CheckCaptureProcessed(d) == ProcessedSuffix \in dir_files[d]

DirectoryInit ==
    /\ SessionInit
    /\ params_duration = 1
    /\ arg_duration = MaxDuration
    /\ ProcessIdle
    /\ LocateIdle
    /\ dir_files \in [Dirs -> SUBSET (CaptureSuffixes \cup {ProcessedSuffix})]
    /\ dir_meta \in [Dirs -> MetaRecords]
    /\ pd_pc = "idle"
    /\ pd_todo = <<>>
    /\ pd_limit = 0
    /\ pd_num_dirs = 0
    /\ pd_handed = <<>>
    /\ pd_err = "none"

\* process_directory(limit) is called; os.walk lists the subdirectories in
\* some order.
PdCall(limit, order) ==
    /\ pd_pc = "idle"
    /\ pd_pc' = "loop"
    /\ pd_limit' = limit
    /\ pd_todo' = order
    /\ pd_num_dirs' = 0
    /\ UNCHANGED <<sessionVars, callerVars, processVars, locateVars, dir_files, dir_meta,
                   pd_handed, pd_err>>

\* if limit <= 0: break, and the function returns _num_dirs.
PdBreak ==
    /\ pd_pc = "loop"
    /\ pd_todo # <<>>
    /\ pd_limit <= 0
    /\ pd_pc' = "returned"
    /\ UNCHANGED <<sessionVars, callerVars, processVars, locateVars, dir_files, dir_meta,
                   pd_todo, pd_limit, pd_num_dirs, pd_handed, pd_err>>

\* if not _check_capture_dir(d): continue
PdSkipInvalid ==
    /\ pd_pc = "loop"
    /\ pd_todo # <<>>
    /\ pd_limit > 0
    /\ ~CheckCaptureDir(Head(pd_todo))
    /\ pd_todo' = Tail(pd_todo)
    /\ UNCHANGED <<sessionVars, callerVars, processVars, locateVars, dir_files, dir_meta,
                   pd_pc, pd_limit, pd_num_dirs, pd_handed, pd_err>>

\* elif _check_capture_processed(d): continue
PdSkipProcessed ==
    /\ pd_pc = "loop"
    /\ pd_todo # <<>>
    /\ pd_limit > 0
    /\ CheckCaptureDir(Head(pd_todo))
    /\ CheckCaptureProcessed(Head(pd_todo))
    /\ pd_todo' = Tail(pd_todo)
    /\ UNCHANGED <<sessionVars, callerVars, processVars, locateVars, dir_files, dir_meta,
                   pd_pc, pd_limit, pd_num_dirs, pd_handed, pd_err>>

\* else: _get_capture_meta(d) calls os.listpath, which the os module does not
\* have: AttributeError leaves process_directory before the metadata file is
\* opened and before process_capture is called.
PdProcess ==
    /\ pd_pc = "loop"
    /\ pd_todo # <<>>
    /\ pd_limit > 0
    /\ CheckCaptureDir(Head(pd_todo))
    /\ ~CheckCaptureProcessed(Head(pd_todo))
    /\ pd_err' = "AttributeError"
    /\ pd_pc' = "raised"
    /\ pd_todo' = Tail(pd_todo)
    /\ UNCHANGED <<sessionVars, callerVars, processVars, locateVars, dir_files, dir_meta,
                   pd_limit, pd_num_dirs, pd_handed>>

\* The subdirectories are exhausted: return _num_dirs.
PdReturn ==
    /\ pd_pc = "loop"
    /\ pd_todo = <<>>
    /\ pd_pc' = "returned"
    /\ UNCHANGED <<sessionVars, callerVars, processVars, locateVars, dir_files, dir_meta,
                   pd_todo, pd_limit, pd_num_dirs, pd_handed, pd_err>>

\* The shell's process command may be given again.
PdAgain ==
    /\ pd_pc \in {"returned", "raised"}
    /\ pd_pc' = "idle"
    /\ pd_err' = "none"
    /\ pd_todo' = <<>>
    /\ UNCHANGED <<sessionVars, callerVars, processVars, locateVars, dir_files, dir_meta,
                   pd_limit, pd_num_dirs, pd_handed>>

DirOrders == {o \in [1..Cardinality(Dirs) -> Dirs] : \A i, j \in DOMAIN o : o[i] = o[j] => i = j}

DirectoryNext ==
    \/ \E limit \in Limits, order \in DirOrders : PdCall(limit, order)
    \/ PdBreak
    \/ PdSkipInvalid
    \/ PdSkipProcessed
    \/ PdProcess
    \/ PdReturn
    \/ PdAgain

DirectorySpec == DirectoryInit /\ [][DirectoryNext]_vars

(***************************************************************************)
(* Properties of the capture session                                       *)
(***************************************************************************)
\* The "File:" line has been written and is no longer in the stream: the
\* capture thread has read it.
MarkerRead ==
    /\ marker_emitted
    /\ \A i \in 1..Len(stderr) : stderr[i] # MarkerLine

\* C1: the start gate is set only by a step of the capture worker, taken after
\* that worker has read a line starting with "File:" from the subprocess's
\* stderr; no step of the coordinator or of another worker sets it.
C1_StartGateSetByCaptureWorker ==
    [][(~start_flag /\ start_flag') =>
          /\ thread["capture"] = "loop"
          /\ thread'["capture"] = "proc_wait"
          /\ StartsWithFile(curr_line)
          /\ MarkerRead
          /\ coord_pc' = coord_pc
          /\ \A w \in Gated : thread'[w] = thread[w]]_vars

C1_Witness ==
    /\ start_flag
    /\ thread["capture"] = "proc_wait"
    /\ curr_line = MarkerLine

\* C2: as long as the subprocess has not written its "File:" line the start
\* gate is not set, and the antenna, GPS and channel hopper threads have not
\* left their wait on it.
C2_NoMarkerNoRelease ==
    ~marker_emitted =>
        /\ ~start_flag
        /\ \A w \in Gated : thread[w] \in {"none", "waiting"}

C2_Witness ==
    /\ ~marker_emitted
    /\ cap_err = "TimeoutError"
    /\ proc = "exited"
    /\ \A w \in Gated : thread[w] = "waiting"

\* C3: once the capture thread has failed with the startup timeout, capture()
\* terminates (and returns the error); it does not stay in the duration timer
\* or in result collection.
C3_StartupTimeoutReturns ==
    (cap_err = "TimeoutError") ~> (coord_pc = "returned")

\* C4: a capture thread that has waited more than 5 seconds for a "File:" line
\* that the subprocess has not written fails with the timeout, whatever the
\* subprocess does.
C4_StartupTimeoutRaised ==
    (thread["capture"] = "loop" /\ cap_elapsed > StartTimeout /\ ~marker_emitted)
        ~> (cap_err = "TimeoutError")

\* The capture worker has died of ValueError("Capture failed") after the start
\* gate fired, and every other worker has finished its run normally.
CaptureWorkerFailed ==
    /\ start_flag
    /\ thread["capture"] = "dead"
    /\ cap_err = "ValueError"
    /\ \A w \in Gated : thread[w] = "done"

\* C5: after the start gate has fired, when a worker has died without posting
\* its result, the coordinator's wait for results ends and capture() returns.
\* Stated of the capture worker, the other workers having posted theirs.
C5_ResultWaitBounded ==
    (CaptureWorkerFailed /\ queue["capture"] = <<>>) ~> (coord_pc = "returned")

\* C6: after the start gate has fired, when a worker has failed, the
\* coordinator still comes to join all four workers.  Stated of the capture
\* worker, the other workers having terminated.
C6_JoinedAfterFailure ==
    CaptureWorkerFailed ~> (joined = Workers)

\* C7: when capture() has returned because the operator interrupted the wait
\* for the GPS fix, no worker thread exists and neither gate is set.
C7_CancelLeavesNoWorker ==
    (coord_pc = "returned" /\ coord_result = "False") =>
        /\ \A w \in Workers : thread[w] = "none"
        /\ ~initialize_flag
        /\ ~start_flag

\* C8: when the capture worker could not be set up (dumpcap missing, interface
\* not in monitor mode), no other worker has been started and neither gate is
\* set.
C8_SetupFailureStartsNothing ==
    coord_err \in {"SystemExit:dumpcap", "AssertionError:monitor"} =>
        /\ \A w \in Workers : thread[w] = "none"
        /\ ~initialize_flag
        /\ ~start_flag

ResultOrder == <<"antenna", "gps", "capture">>

\* C9: the coordinator takes the results in the order antenna, GPS, capture,
\* one of each and none of the channel hopper; it takes the first only after
\* its duration loop of duration + 1 sleeps is over; a session that completes
\* has taken all three.
C9_ResultsOnceInOrderAfterTimer ==
    /\ \E n \in 0..Len(ResultOrder) : collected = SubSeq(ResultOrder, 1, n)
    /\ collected # <<>> => (sec = params_duration + 1 /\ sleep_left = 0)
    /\ coord_result = "session" => collected = ResultOrder

C9_Witness ==
    /\ coord_result = "session"
    /\ collected = ResultOrder
    /\ thread["hopper"] = "done"

\* C10 as stated: the metadata file is written only when all four workers
\* have been joined.
C10_MetaAfterJoins ==
    meta_written > 0 => joined = Workers

\* C10 amended: the metadata file is written only after all three results have
\* been collected, and no worker is joined before it is written.
C10_MetaAfterResultsBeforeJoins ==
    /\ meta_written > 0 => collected = ResultOrder
    /\ joined # {} => meta_written > 0

C10_Witness ==
    /\ meta_written = 1
    /\ joined = {}
    /\ collected = ResultOrder
    /\ \E w \in Workers : ~Terminated(w)

\* C11: the metadata file is written at most once, and only when the antenna,
\* GPS and capture results have all been collected; a session that was
\* cancelled, or in which capture() or a reporting worker failed, has written
\* no metadata.
C11_MetaWrittenOnceAfterResults ==
    /\ meta_written <= 1
    /\ meta_written = 1 => Len(collected) = Cardinality(Reporting)
    /\ ( \/ coord_result = "False"
         \/ coord_err # "none"
         \/ \E w \in Reporting : thread[w] = "dead" ) => meta_written = 0

C11_Witness ==
    /\ meta_written = 1
    /\ coord_result = "session"
    /\ shell_pc = "done"

\* C12: while process_capture reads the raw capture file, the capture thread
\* has terminated and its subprocess has exited.
C12_CaptureFileReadAfterWorker ==
    shell_pc = "process_capture" =>
        /\ Terminated("capture")
        /\ proc = "exited"

C12_Witness ==
    /\ shell_pc = "process_capture"
    /\ "capture" \in joined

\* C13: with a duration (or interface) that is not set, no worker is ever
\* created, whichever shell command started the session.
C13_InvalidConfigStartsNothing ==
    ~Validate => \A w \in Workers : thread[w] = "none"

(***************************************************************************)
(* Properties of the bearing computed by process_capture                   *)
(***************************************************************************)
Rows == {results[i] : i \in 1..Len(results)}

\* The schedule of the end-to-end scenarios, with T = 1: start bearing 0,
\* sweep 360, rotation from T to T + 10.
ScenarioSchedule == [start |-> 1, end |-> 11, degrees |-> 360, bearing |-> 0]

\* C14: every packet timestamped at or before the rotation start gets exactly
\* the start bearing.
C14_BeforeStartIsStartBearing ==
    \A r \in Rows :
        r.timestamp <= meta.start => RatEq(r.bearing, Whole(meta.bearing))

\* Scenario B: a packet at T - 1 has bearing 0.
C14_Witness ==
    /\ meta = ScenarioSchedule
    /\ \E r \in Rows : r.timestamp = 0 /\ RatEq(r.bearing, Whole(0))

\* C15: every packet timestamped after the rotation start gets the bearing
\* start_bearing + sweep * (t - start) / (end - start), also after the rotation
\* end, where a positive sweep takes it beyond start_bearing + sweep; halfway
\* through the scenario's sweep the bearing is 180.
C15_LinearWithoutCeiling ==
    \A r \in Rows :
        /\ r.timestamp > meta.start =>
              RatEq(r.bearing,
                    << meta.bearing * (meta.end - meta.start)
                          + meta.degrees * (r.timestamp - meta.start),
                       meta.end - meta.start >>)
        /\ (r.timestamp > meta.end /\ meta.degrees > 0) =>
              RatLess(Whole(meta.bearing + meta.degrees), r.bearing)
        /\ (meta = ScenarioSchedule /\ r.timestamp = 6) =>
              RatEq(r.bearing, Whole(180))

\* Scenario A, a packet at T + 5, and a packet after the rotation end.
C15_Witness ==
    /\ meta = ScenarioSchedule
    /\ \E r \in Rows : r.timestamp = 6 /\ RatEq(r.bearing, Whole(180))
    /\ \E r \in Rows : r.timestamp = 12 /\ RatEq(r.bearing, Whole(396))

\* C16: with a sweep that is not negative, a later packet never gets a smaller
\* bearing than an earlier one.
C16_MonotonicInPacketTime ==
    meta.degrees >= 0 =>
        \A r1 \in Rows, r2 \in Rows :
            r1.timestamp <= r2.timestamp => RatLeq(r1.bearing, r2.bearing)

C16_Witness ==
    /\ meta.degrees = 360
    /\ \E r1 \in Rows, r2 \in Rows :
          /\ r1.timestamp < r2.timestamp
          /\ meta.start < r1.timestamp
          /\ RatLess(r1.bearing, r2.bearing)

(***************************************************************************)
(* Properties of the aggregated series                                     *)
(***************************************************************************)
Prepared == method # "none"

Orderings(n) == {p \in [1..n -> 1..n] : \A i, j \in 1..n : p[i] = p[j] => i = j}

Reordered(rows, p) == [i \in 1..Len(rows) |-> rows[p[i]]]

\* The linear values of the samples that round to degree d.
RoundingTo(d) ==
    {samples[i].mw : i \in {k \in 1..Len(samples) : Round2(samples[k].bearing2) = d}}

SharedDegrees ==
    {d \in 0..(Circle - 1) :
        \E i, j \in 1..Len(samples) :
            /\ i # j
            /\ Round2(samples[i].bearing2) = d
            /\ Round2(samples[j].bearing2) = d}

\* C17: when several samples round to the same degree the prepared series
\* holds the largest of their linear values at that degree, and the series is
\* the same for every ordering of the samples.
C17_PeakHoldAnyOrder ==
    Prepared =>
        /\ \A d \in SharedDegrees : At(series, d) = <<SetMax(RoundingTo(d))>>
        /\ \A p \in Orderings(Len(samples)) :
               PrepForInterpolation(Reordered(samples, p), bearing_arg) = series

\* Two samples of different value round to one degree, the smaller one first
\* in one ordering and last in the other.
C17_Witness ==
    /\ Prepared
    /\ \E i, j \in 1..Len(samples) :
           /\ i < j
           /\ Round2(samples[i].bearing2) = Round2(samples[j].bearing2)
           /\ samples[i].bearing2 # samples[j].bearing2
           /\ samples[i].mw < samples[j].mw
    /\ \E i, j \in 1..Len(samples) :
           /\ i < j
           /\ Round2(samples[i].bearing2) = Round2(samples[j].bearing2)
           /\ samples[i].mw > samples[j].mw

\* C18: for a bearing of at least 360 the prepared series is labelled
\* -360..719 and its entry at each degree d of 0..359, a value or NaN, is also
\* its entry at d + 360 and at d - 360; for a smaller bearing it is labelled
\* 0..359.
C18_CircularExtension ==
    Prepared =>
        IF bearing_arg >= 360
        THEN /\ Labels(series) = (0 - 360)..719
             /\ \A d \in 0..359 :
                    /\ At(series, d + 360) = At(series, d)
                    /\ At(series, d - 360) = At(series, d)
        ELSE Labels(series) = 0..359

C18_Witness ==
    /\ Prepared
    /\ bearing_arg = 360
    /\ \E d \in 0..359 : At(series, d) # <<>> /\ At(series, d + 360) # <<>>
    /\ \E d \in 0..359 : At(series, d) = <<>> /\ At(series, d - 360) = <<>>

\* The rows of a series: one row per label that has a value, at that whole
\* degree, in ascending order.
RECURSIVE RowsAt(_, _)
RowsAt(s, labels) ==
    IF labels = {} THEN <<>>
    ELSE LET d == SetMin(labels)
         IN  <<[bearing2 |-> 2 * d, mw |-> At(s, d)[1]]>> \o RowsAt(s, labels \ {d})

RowsOf(s) == RowsAt(s, {d \in Labels(s) : At(s, d) # <<>>})

\* C19: preparing the rows of an already prepared series, one row per whole
\* degree, gives that series again.
C19_PrepareIdempotent ==
    Prepared => PrepForInterpolation(RowsOf(series), bearing_arg) = series

C19_Witness ==
    /\ Prepared
    /\ Duplicated(Rounded(samples))
    /\ Len(RowsOf(series)) >= 2
    /\ PrepForInterpolation(RowsOf(series), bearing_arg) = series

\* C20: the method follows the number of rows: a low-order method, not pchip,
\* for at most two rows, and pchip for three or more.
C20_MethodBySampleCount ==
    Prepared =>
        /\ Len(samples) <= 2 => method \in {"slinear", "naive"}
        /\ Len(samples) >= 3 => method = "pchip"

(***************************************************************************)
(* Properties of the estimate                                              *)
(***************************************************************************)
\* The degrees of 0..359 that hold a value in the prepared series.
UsablePoints == Valued(Restricted(series))

\* C21: when the prepared series holds fewer than two values in 0..359,
\* interpolate ends with InsufficientDataError and without a guess.
C21_TooFewPointsIsAnError ==
    (Prepared /\ Cardinality(UsablePoints) < 2) =>
        /\ locate_err = "InsufficientDataError"
        /\ guess = <<>>

\* The curve of the returned method over 0..359.
FittedCurve ==
    Restricted(IF method = "naive"
               THEN series
               ELSE SeriesInter(series, Ascending(Valued(series))))

\* C22: whenever interpolate returns, for a series over 0..359 or over
\* -360..719, its guess is a degree of 0..359 at which the curve of the
\* returned method is largest among those degrees.
C22_GuessIsRestrictedMaximum ==
    (Prepared /\ locate_err = "none") =>
        /\ guess # <<>>
        /\ guess[1] \in 0..359
        /\ At(FittedCurve, guess[1]) # <<>>
        /\ \A d \in Valued(FittedCurve) :
               RatLeq(AsRat(At(FittedCurve, d)), AsRat(At(FittedCurve, guess[1])))

(***************************************************************************)
(* Properties of process_capture's packet loop                             *)
(***************************************************************************)
\* C23: a packet that lacks a field is counted as a failure and skipped, every
\* other packet gives one row, and the loop goes on: the rows written and the
\* failures counted add up to the packets taken.
C23_RowsPlusFailuresAreFrames ==
    /\ beacon_count = Len(results)
    /\ Len(results) + beacon_failures = frames_read

\* All packets are taken, one of them failed and one gave a row.
C23_Witness ==
    /\ frames_read = MaxPackets
    /\ beacon_failures >= 1
    /\ Len(results) >= 1

(***************************************************************************)
(* Properties of process_directory                                         *)
(***************************************************************************)
\* The loop of the current run has taken directory d.
Taken(d) ==
    /\ pd_pc \in {"loop", "returned", "raised"}
    /\ \A i \in 1..Len(pd_todo) : pd_todo[i] # d

\* The calls of process_capture for directory d.
HandedFor(d) == {i \in 1..Len(pd_handed) : pd_handed[i].dir = d}

\* C24: a directory the loop has taken was handed to process_capture if it was
\* valid and not yet processed, and only then; a directory handed over is
\* processed, and none is handed over twice.
C24_ProcessedIffValidUnprocessed ==
    \A d \in Dirs :
        /\ (Taken(d) /\ CheckCaptureDir(d) /\ HandedFor(d) = {})
               => CheckCaptureProcessed(d)
        /\ HandedFor(d) # {} => (CheckCaptureDir(d) /\ CheckCaptureProcessed(d))
        /\ Cardinality(HandedFor(d)) <= 1

\* C27: for a valid directory not yet processed that the loop has taken, the
\* record handed to process_capture is the record of the directory's metadata
\* file, field for field.
C27_MetaReadIsMetaWritten ==
    \A d \in Dirs :
        (Taken(d) /\ CheckCaptureDir(d) /\ ~CheckCaptureProcessed(d)) =>
            \E i \in HandedFor(d) :
                /\ pd_handed[i].meta.start = dir_meta[d].start
                /\ pd_handed[i].meta.end = dir_meta[d].end
                /\ pd_handed[i].meta.degrees = dir_meta[d].degrees
                /\ pd_handed[i].meta.bearing = dir_meta[d].bearing

(***************************************************************************)
(* Properties of the two gates                                             *)
(***************************************************************************)
GateOrder ==
    /\ start_flag => initialize_flag
    /\ initialize_flag => gps_mode = FixMode
    /\ proc # "none" => initialize_flag

GateStep ==
    /\ initialize_flag => initialize_flag'
    /\ start_flag => start_flag'
    /\ (proc = "none" /\ proc' # "none") => initialize_flag

\* C25: in every state _start_flag set implies _initialize_flag set, and
\* _initialize_flag set implies that the coordinator has seen GPS mode 3;
\* dumpcap is spawned only with _initialize_flag set; no step clears a flag
\* that is set.
C25_GateOrdering == [](GateOrder) /\ [][GateStep]_vars

\* Both gates are set and dumpcap has been spawned.
C25_Witness ==
    /\ start_flag
    /\ initialize_flag
    /\ proc # "none"
    /\ gps_mode = FixMode

(***************************************************************************)
(* Termination of the session                                              *)
(***************************************************************************)
\* The capture thread has read the marker in time, dumpcap has exited with
\* statistics that parse, and the antenna and GPS threads have each put their
\* result.
AllPosted ==
    /\ gps_mode = FixMode
    /\ thread["capture"] \in {"posted", "done"}
    /\ \A w \in Reporting : thread[w] = "done"

SessionFinished ==
    /\ collected = ResultOrder
    /\ meta_written = 1
    /\ joined = Workers
    /\ coord_pc = "returned"
    /\ coord_result = "session"

\* C26: under fair scheduling, once the GPS fix is seen, the capture thread
\* has posted its statistics and the antenna and GPS threads have posted
\* their results, the session finishes: the three results are collected, the
\* metadata row is written, the four threads are joined and capture() returns
\* the session.
C26_SessionFinishes == AllPosted ~> SessionFinished

C26_Witness == AllPosted /\ SessionFinished /\ sec = params_duration + 1

(***************************************************************************)
(* The parameters a session runs with                                      *)
(***************************************************************************)
\* C28: a session runs with the duration of the object its caller passed:
\* when its metadata row is written, the coordinator's timer has run for that
\* duration and one second.
C28_SessionUsesPassedDuration ==
    meta_written > 0 => sec = arg_duration + 1

====
